---------------------------- MODULE Spec2Model ----------------------------
(***************************************************************************)
(* A model of the Net Speed GNOME Shell extension: the periodic sampler    *)
(* that reads the per-interface byte counters, the line parser and         *)
(* virtual-interface filter it contains, the rate formatter, and the       *)
(* enable/disable lifecycle that owns the timer and the panel label.       *)
(*                                                                         *)
(* Strings are sequences of one-character strings, so that trimming,       *)
(* splitting, prefix matching, integer parsing and fixed-point printing    *)
(* are computed character by character as the code does.                   *)
(***************************************************************************)
EXTENDS Integers, Sequences, FiniteSets, TLC

VARIABLES
    \* ---- the extension object (NetSpeed) and its host resources ----
    lastTotalDownBytes,   \* this._lastTotalDownBytes
    lastTotalUpBytes,     \* this._lastTotalUpBytes
    indicator,            \* this._indicator: [alive, text]
    timeout,              \* this._timeout: a source id, or NoTimeout
    sources,              \* the GLib timeout sources currently registered
    statusArea,           \* Main.panel.statusArea[uuid]: "none" | "current" | "leaked"
    \* ---- the latest timer callback, as it ran ----
    speed,                \* the RateSample getCurrentNetSpeed returned
    readOk,               \* "none" | "ok" | "failed": outcome of its load_contents
    prevReadOk,           \* readOk of the callback before it
    entryDown,            \* _lastTotalDownBytes when the callback started
    entryUp,              \* _lastTotalUpBytes when the callback started
    totalDown,            \* its local totalDownBytes
    totalUp,              \* its local totalUpBytes
    ticks,                \* callbacks run since the last enable() (saturating)
    enables,              \* enable() calls so far (saturating)
    op,                   \* the operation that produced this state
    hostState,            \* the shell's record of the extension: "DISABLED" | "ENABLED"
    \* ---- what an observer of /proc/net/dev and of the samples has seen
    \*      since the last enable() ----
    seen,                 \* the counters of the latest successful read, or NaN
    wasReset,             \* did that read find a counter below the read before it
    monotone,             \* no successful read found a counter below the one before
    ledger,               \* per direction: the first counter read and the bytes reported
    \* ---- one run of the line loop of getCurrentNetSpeed ----
    pVersion,             \* which source file's filter is run
    pFile,                \* the file read: the names of its lines (see Entries)
    pI,                   \* the loop index i (1-based)
    pTotalDown,           \* totalDownBytes so far
    pTotalUp,             \* totalUpBytes so far
    \* ---- one run of formatSpeedWithUnit ----
    fInput,               \* the argument
    fAmount,              \* the local amount
    fUnitIndex,           \* the local unitIndex
    fOut,                 \* the returned string (<<>> until returned)
    fPc                   \* "loop" | "done"

vars == <<lastTotalDownBytes, lastTotalUpBytes, indicator, timeout, sources,
          statusArea,
          speed, readOk, prevReadOk, entryDown, entryUp, totalDown, totalUp,
          ticks, enables, op, hostState, seen, wasReset, monotone, ledger,
          pVersion, pFile, pI, pTotalDown, pTotalUp,
          fInput, fAmount, fUnitIndex, fOut, fPc>>

samplerVars == <<lastTotalDownBytes, lastTotalUpBytes, indicator, timeout,
                 sources, statusArea, speed, readOk, prevReadOk, entryDown,
                 entryUp, totalDown, totalUp, ticks, enables, op, hostState,
                 seen, wasReset, monotone, ledger>>
parseVars == <<pVersion, pFile, pI, pTotalDown, pTotalUp>>
formatVars == <<fInput, fAmount, fUnitIndex, fOut, fPc>>

---------------------------------------------------------------------------
\* Bounds of the model.

\* Lines per counter file in the line-loop specification.
MaxLines == 2
\* The callback counter `ticks` saturates here.
MaxTicks == 3
\* The enable() counter `enables` saturates here.
MaxEnables == 2
\* Timeout sources that can be registered at once.
MaxSources == 2
\* Largest power of 1000 an argument of formatSpeedWithUnit carries.
MaxExp == 9

---------------------------------------------------------------------------
\* Characters and strings.

\* "abc" as the model writes it: <<"a","b","c">>.
DigitChars == <<"0", "1", "2", "3", "4", "5", "6", "7", "8", "9">>
HexChars == <<"0", "1", "2", "3", "4", "5", "6", "7", "8", "9",
              "a", "b", "c", "d", "e", "f">>
HexCharsUpper == <<"0", "1", "2", "3", "4", "5", "6", "7", "8", "9",
                   "A", "B", "C", "D", "E", "F">>
LetterChars == {"a", "b", "c", "d", "e", "f", "g", "h", "i", "j", "k", "l", "m",
                "n", "o", "p", "q", "r", "s", "t", "u", "v", "w", "x", "y", "z",
                "A", "B", "C", "D", "E", "F", "G", "H", "I", "J", "K", "L", "M",
                "N", "O", "P", "Q", "R", "S", "T", "U", "V", "W", "X", "Y", "Z"}

Range(s) == {s[i] : i \in 1..Len(s)}

isDigit(c) == c \in Range(DigitChars)

\* \w of a JavaScript regular expression: [A-Za-z0-9_].
isWordChar(c) == c \in LetterChars \cup Range(DigitChars) \cup {"_"}

\* White space as String.prototype.trim sees it (the kinds a counter file has).
isWhiteSpace(c) == c \in {" ", "\t", "\r"}

\* The value of decimal digit c.
digitValue(c) == (CHOOSE i \in 1..10 : DigitChars[i] = c) - 1

isHexDigit(c) == c \in Range(HexChars) \cup Range(HexCharsUpper)

hexValue(c) ==
    IF c \in Range(HexChars)
    THEN (CHOOSE i \in 1..16 : HexChars[i] = c) - 1
    ELSE (CHOOSE i \in 1..16 : HexCharsUpper[i] = c) - 1

\* String.prototype.startsWith.
startsWith(s, prefix) ==
    /\ Len(s) >= Len(prefix)
    /\ SubSeq(s, 1, Len(prefix)) = prefix

\* String.prototype.trim: white space removed from both ends.
RECURSIVE trimStart(_)
trimStart(s) ==
    IF s # <<>> /\ isWhiteSpace(Head(s)) THEN trimStart(Tail(s)) ELSE s

RECURSIVE trimEnd(_)
trimEnd(s) ==
    IF s # <<>> /\ isWhiteSpace(s[Len(s)])
    THEN trimEnd(SubSeq(s, 1, Len(s) - 1))
    ELSE s

trim(s) == trimEnd(trimStart(s))

\* String.prototype.split(/\W+/): the pieces between maximal runs of non-word
\* characters; a run at either end leaves an empty piece there, and the
\* empty string splits into one empty piece.
RECURSIVE splitNonWordFrom(_, _, _, _, _)
splitNonWordFrom(s, i, piece, pieces, inSeparator) ==
    IF i > Len(s) THEN Append(pieces, piece)
    ELSE IF isWordChar(s[i])
         THEN splitNonWordFrom(s, i + 1, Append(piece, s[i]), pieces, FALSE)
         ELSE IF inSeparator
              THEN splitNonWordFrom(s, i + 1, piece, pieces, TRUE)
              ELSE splitNonWordFrom(s, i + 1, <<>>, Append(pieces, piece), TRUE)

splitNonWord(s) == splitNonWordFrom(s, 1, <<>>, <<>>, FALSE)

\* Number.parseInt yields NaN where it finds no digit; the tokens it is given
\* here hold word characters only, so it never yields a negative number and
\* -1 stands for NaN.
NaN == -1

isNaN(n) == n = NaN

\* The value of the longest prefix of s made of digits of the radix, read onto acc.
RECURSIVE decimalPrefix(_, _)
decimalPrefix(s, acc) ==
    IF s # <<>> /\ isDigit(Head(s))
    THEN decimalPrefix(Tail(s), acc * 10 + digitValue(Head(s)))
    ELSE acc

RECURSIVE hexPrefix(_, _)
hexPrefix(s, acc) ==
    IF s # <<>> /\ isHexDigit(Head(s))
    THEN hexPrefix(Tail(s), acc * 16 + hexValue(Head(s)))
    ELSE acc

\* Number.parseInt(string) with no radix: a leading 0x or 0X selects radix 16,
\* then the longest prefix of digits is read and the rest ignored; no digit
\* at all gives NaN.
parseInt(s) ==
    IF Len(s) >= 2 /\ s[1] = "0" /\ s[2] \in {"x", "X"}
    THEN IF Len(s) >= 3 /\ isHexDigit(s[3])
         THEN hexPrefix(SubSeq(s, 3, Len(s)), 0)
         ELSE NaN
    ELSE IF s # <<>> /\ isDigit(Head(s))
         THEN decimalPrefix(s, 0)
         ELSE NaN

\* fields[i] of a JavaScript array (0-based), as Number.parseInt reads it: an
\* index past the end is undefined, which parseInt turns into "undefined".
fieldText(fields, i) ==
    IF i + 1 <= Len(fields)
    THEN fields[i + 1]
    ELSE <<"u", "n", "d", "e", "f", "i", "n", "e", "d">>

\* iface.match(/^<prefix>[0-9]+/): the prefix and then at least one digit.
matchPrefixDigits(iface, prefix) ==
    /\ startsWith(iface, prefix)
    /\ Len(iface) > Len(prefix)
    /\ isDigit(iface[Len(prefix) + 1])


---------------------------------------------------------------------------
\* The line loop of getCurrentNetSpeed.

\* The two source files of the extension: the ES-module one (NetSpeed) and
\* the legacy one (Extension).  They differ in the filter only.
Versions == {"esm", "legacy"}

\* A filter that skips every name starting with a listed prefix.
isVirtualInterfaceByPrefix(iface) ==
    \E prefix \in {<<"l", "o">>,
                   <<"i", "f", "b">>,
                   <<"l", "x", "d", "b", "r">>,
                   <<"v", "i", "r", "b", "r">>,
                   <<"b", "r">>,
                   <<"v", "n", "e", "t">>,
                   <<"t", "u", "n">>,
                   <<"t", "a", "p">>,
                   <<"d", "o", "c", "k", "e", "r">>,
                   <<"u", "t", "u", "n">>,
                   <<"w", "g">>,
                   <<"v", "e", "t", "h">>} :
        startsWith(iface, prefix)

\* The filter part of the `if` that skips a line, in the ES-module file.
isVirtualInterface(iface) ==
    \/ iface = <<"l", "o">>
    \/ matchPrefixDigits(iface, <<"i", "f", "b">>)
    \/ matchPrefixDigits(iface, <<"l", "x", "d", "b", "r">>)
    \/ matchPrefixDigits(iface, <<"v", "i", "r", "b", "r">>)
    \/ matchPrefixDigits(iface, <<"b", "r">>)
    \/ matchPrefixDigits(iface, <<"v", "n", "e", "t">>)
    \/ matchPrefixDigits(iface, <<"t", "u", "n">>)
    \/ matchPrefixDigits(iface, <<"t", "a", "p">>)
    \/ matchPrefixDigits(iface, <<"d", "o", "c", "k", "e", "r">>)
    \/ matchPrefixDigits(iface, <<"u", "t", "u", "n">>)
    \/ startsWith(iface, <<"v", "e", "t", "h">>)

\* The same part in the legacy file: no docker, utun or veth.
isVirtualInterfaceLegacy(iface) ==
    \/ iface = <<"l", "o">>
    \/ matchPrefixDigits(iface, <<"i", "f", "b">>)
    \/ matchPrefixDigits(iface, <<"l", "x", "d", "b", "r">>)
    \/ matchPrefixDigits(iface, <<"v", "i", "r", "b", "r">>)
    \/ matchPrefixDigits(iface, <<"b", "r">>)
    \/ matchPrefixDigits(iface, <<"v", "n", "e", "t">>)
    \/ matchPrefixDigits(iface, <<"t", "u", "n">>)
    \/ matchPrefixDigits(iface, <<"t", "a", "p">>)

\* One pass of the loop body over lines[i]: the running totals after it.
\* `continue` leaves them as they were.
lineStep(version, line, totals) ==
    LET fields == splitNonWord(trim(line))
    IN  IF Len(fields) <= 2
        THEN totals
        ELSE LET iface == fields[1]
                 currentInterfaceDownBytes == parseInt(fieldText(fields, 1))
                 currentInterfaceUpBytes == parseInt(fieldText(fields, 9))
             IN  IF \/ IF version = "esm"
                       THEN isVirtualInterface(iface)
                       ELSE isVirtualInterfaceLegacy(iface)
                    \/ isNaN(currentInterfaceDownBytes)
                    \/ isNaN(currentInterfaceUpBytes)
                 THEN totals
                 ELSE [down |-> totals.down + currentInterfaceDownBytes,
                       up |-> totals.up + currentInterfaceUpBytes]

\* The whole loop, from line i on.
RECURSIVE sumLinesFrom(_, _, _, _)
sumLinesFrom(version, lines, i, totals) ==
    IF i > Len(lines)
    THEN totals
    ELSE sumLinesFrom(version, lines, i + 1, lineStep(version, lines[i], totals))

\* totalDownBytes and totalUpBytes as the loop leaves them.
sumInterfaces(version, lines) ==
    sumLinesFrom(version, lines, 1, [down |-> 0, up |-> 0])


---------------------------------------------------------------------------
\* Numbers of formatSpeedWithUnit.
\*
\* An amount is the real number num / den * 1000^exp, kept exactly:
\* [num |-> Int, den |-> positive Nat, exp |-> Nat], with den = 1 and
\* num >= 1 whenever exp > 0.  The rates the sampler produces have exp = 0
\* and den = refreshInterval; exp carries the arguments too large to write
\* out, which only a direct call of the formatter can supply.

refreshInterval == 3

speedUnits == << <<"B", "/", "s">>, <<"K", "/", "s">>, <<"M", "/", "s">>,
                 <<"G", "/", "s">>, <<"T", "/", "s">>, <<"P", "/", "s">>,
                 <<"E", "/", "s">>, <<"Z", "/", "s">>, <<"Y", "/", "s">> >>

\* amount >= c, for an integer c >= 1.
RECURSIVE amountAtLeast(_, _)
amountAtLeast(amount, c) ==
    IF amount.num <= 0 THEN FALSE
    ELSE IF amount.num >= c * amount.den THEN TRUE
    ELSE IF amount.exp = 0 THEN FALSE
    ELSE amountAtLeast([amount EXCEPT !.num = @ * 1000, !.exp = @ - 1], c)

\* A test of the magnitude: |amount| < 0.01.
amountBelowHundredthByMagnitude(amount) ==
    /\ amount.exp = 0
    /\ 100 * (IF amount.num < 0 THEN -amount.num ELSE amount.num) < amount.den

\* amount - 0 < 0.01
RECURSIVE amountBelowHundredth(_)
amountBelowHundredth(amount) ==
    IF amount.num <= 0 THEN TRUE
    ELSE IF 100 * amount.num >= amount.den THEN FALSE
    ELSE IF amount.exp = 0 THEN TRUE
    ELSE amountBelowHundredth([amount EXCEPT !.num = @ * 1000, !.exp = @ - 1])

RECURSIVE gcd(_, _)
gcd(a, b) == IF b = 0 THEN a ELSE gcd(b, a % b)

\* The number num / den (den > 0), in lowest terms.
ratio(num, den) ==
    LET g == gcd(IF num < 0 THEN -num ELSE num, den)
    IN  [num |-> num \div g, den |-> den \div g, exp |-> 0]

\* amount /= 1000
divideByThousand(amount) ==
    IF amount.exp > 0
    THEN [amount EXCEPT !.exp = @ - 1]
    ELSE ratio(amount.num, amount.den * 1000)

\* A loop condition with > in place of >=.
mustScaleAboveThousand(amount, unitIndex) ==
    /\ amountAtLeast(amount, 1000)
    /\ ~(amount.exp = 0 /\ amount.num = 1000 * amount.den)
    /\ ~(amount.exp = 1 /\ amount.num = amount.den)
    /\ unitIndex < Len(speedUnits) - 1

\* The condition of the while loop.
mustScale(amount, unitIndex) ==
    amountAtLeast(amount, 1000) /\ unitIndex < Len(speedUnits) - 1

\* The while loop: amount and unitIndex as it leaves them.
RECURSIVE scaleToUnit(_, _)
scaleToUnit(amount, unitIndex) ==
    IF mustScale(amount, unitIndex)
    THEN scaleToUnit(divideByThousand(amount), unitIndex + 1)
    ELSE [amount |-> amount, unitIndex |-> unitIndex]

\* A chain whose first test is amount > 100.
chooseDigitsAboveHundred(amount) ==
    IF \/ amountAtLeast(amount, 100) /\ ~(amount.exp = 0 /\ amount.num = 100 * amount.den)
       \/ amountBelowHundredth(amount)
    THEN 0
    ELSE IF amountAtLeast(amount, 10) THEN 1
    ELSE 2

\* The if/else chain that sets `digits`.
chooseDigits(amount) ==
    IF amountAtLeast(amount, 100) \/ amountBelowHundredth(amount) THEN 0
    ELSE IF amountAtLeast(amount, 10) THEN 1
    ELSE 2

\* The decimal digits of a natural number.
RECURSIVE decimalString(_)
decimalString(n) ==
    IF n < 10
    THEN <<DigitChars[n + 1]>>
    ELSE Append(decimalString(n \div 10), DigitChars[(n % 10) + 1])

zeros(n) == [i \in 1..n |-> "0"]

powerOfTen(digits) == IF digits = 0 THEN 1 ELSE IF digits = 1 THEN 10 ELSE 100

\* The digits of n with the decimal point `digits` places from the right,
\* padded with leading zeros to at least one integer digit.
fixedString(n, digits) ==
    LET raw == decimalString(n)
        padded == IF Len(raw) <= digits
                  THEN zeros(digits + 1 - Len(raw)) \o raw
                  ELSE raw
    IN  IF digits = 0
        THEN padded
        ELSE SubSeq(padded, 1, Len(padded) - digits) \o <<".">>
             \o SubSeq(padded, Len(padded) - digits + 1, Len(padded))

\* Number.prototype.toFixed(digits) on an amount below 10^21: the sign, then
\* the integer n nearest to |amount| * 10^digits, written with the point.
\* The result is the set of strings the call can return: one string, except
\* where |amount| * 10^digits lies exactly halfway between two integers;
\* there the binary double that stands for the amount may lie on either side
\* (1.005 is stored below 1.005, 2.5 is stored exactly and takes the larger n).
toFixed(amount, digits) ==
    LET negative == amount.num < 0
        magnitude == IF negative THEN -amount.num ELSE amount.num
        scaled == magnitude * powerOfTen(digits)
        quotient == scaled \div amount.den
        remainder == scaled % amount.den
        nearest == IF 2 * remainder > amount.den THEN {quotient + 1}
                   ELSE IF 2 * remainder = amount.den THEN {quotient, quotient + 1}
                   ELSE {quotient}
        sign == IF negative THEN <<"-">> ELSE <<>>
    IN  IF amount.exp = 0
        THEN {sign \o fixedString(n, digits) : n \in nearest}
        ELSE {sign \o decimalString(amount.num) \o zeros(3 * amount.exp)
                   \o (IF digits = 0 THEN <<>> ELSE <<".">> \o zeros(digits))}

\* formatSpeedWithUnit(amount): the strings it can return.
formatSpeedWithUnit(amount) ==
    LET scaled == scaleToUnit(amount, 0)
        digits == chooseDigits(scaled.amount)
    IN  {text \o <<" ">> \o speedUnits[scaled.unitIndex + 1] :
            text \in toFixed(scaled.amount, digits)}

\* toSpeedString(speed): the strings it can return.
toSpeedString(rate) ==
    {<<"↓", " ">> \o down \o <<" ", "↑", " ">> \o up :
        down \in formatSpeedWithUnit(rate.down),
        up \in formatSpeedWithUnit(rate.up)}


---------------------------------------------------------------------------
\* The counter file, /proc/net/dev, as the kernel writes it.
\*
\* An entry describes one line three ways: its text, what the kernel meant
\* by it, and what its tokens read as.
\*   line      the text of the line
\*   kind      "interface": <name>: and 16 counters; "other": anything else
\*   iface     the interface's name ("other": <<>>)
\*   rxBytes   the interface's received bytes ("other": 0)
\*   txBytes   the interface's transmitted bytes ("other": 0)
\*   tokens    how many pieces the trimmed line splits into
\*   name0     piece 0
\*   read1     the number piece 1 reads as, or NaN
\*   read9     the number piece 9 reads as, or NaN

space(n) == [i \in 1..n |-> " "]

\* k further columns, each holding 0.
RECURSIVE zeroColumns(_)
zeroColumns(k) == IF k = 0 THEN <<>> ELSE <<" ", "0">> \o zeroColumns(k - 1)

\* "  <name>: <rx> 0 0 0 0 0 0 0 <tx> 0 0 0 0 0 0 0", the columns being
\* bytes packets errs drop fifo frame compressed multicast, twice.
counterLine(name, rxText, txText) ==
    space(2) \o name \o <<":", " ">> \o rxText \o zeroColumns(7)
    \o <<" ">> \o txText \o zeroColumns(7)

interfaceEntry(name, rx, tx) ==
    [line |-> counterLine(name, decimalString(rx), decimalString(tx)),
     kind |-> "interface", iface |-> name, rxBytes |-> rx, txBytes |-> tx,
     tokens |-> 17, name0 |-> name, read1 |-> rx, read9 |-> tx]

otherEntry(text, tokens, name0, read1, read9) ==
    [line |-> text, kind |-> "other", iface |-> <<>>, rxBytes |-> 0, txBytes |-> 0,
     tokens |-> tokens, name0 |-> name0, read1 |-> read1, read9 |-> read9]

\* The two header lines of the file.
headerLine1 ==
    <<"I", "n", "t", "e", "r", "-", "|", " ", " ", " ", "R", "e", "c", "e", "i", "v", "e", " ", " ", "|", " ", " ", "T", "r", "a", "n", "s", "m", "i", "t">>
headerLine2 ==
    <<" ", "f", "a", "c", "e", " ", "|", "b", "y", "t", "e", "s", " ", "p", "a", "c", "k", "e", "t", "s", " ", "e", "r", "r", "s", " ", "d", "r", "o", "p", " ", "f", "i", "f", "o", " ", "f", "r", "a", "m", "e", " ", "c", "o", "m", "p", "r", "e", "s", "s", "e", "d", " ", "m", "u", "l", "t", "i", "c", "a", "s", "t", "|", "b", "y", "t", "e", "s", " ", "p", "a", "c", "k", "e", "t", "s">>

\* Interface names: physical ones, one for each name the filter knows, and
\* virtual ones it does not know.
PhysicalNames == {<<"e", "t", "h", "0">>, <<"w", "l", "p", "2", "s", "0">>}
KnownVirtualNames ==
    {<<"l", "o">>,
     <<"i", "f", "b", "0">>,
     <<"l", "x", "d", "b", "r", "0">>,
     <<"v", "i", "r", "b", "r", "0">>,
     <<"b", "r", "0">>,
     <<"v", "n", "e", "t", "0">>,
     <<"t", "u", "n", "0">>,
     <<"t", "a", "p", "0">>,
     <<"d", "o", "c", "k", "e", "r", "0">>,
     <<"u", "t", "u", "n", "0">>,
     <<"v", "e", "t", "h", "1", "a">>}
OtherVirtualNames ==
    {<<"w", "g", "0">>,
     <<"t", "u", "n", "l", "0">>,
     <<"d", "o", "c", "k", "e", "r", "_", "g", "w", "b", "r", "i", "d", "g", "e">>}
\* A VLAN interface: its name holds a non-word character.
vlanName == <<"e", "t", "h", "0", ".", "1", "0", "0">>

\* Lines that are no well-formed interface line.
emptyLine == <<>>
twoTokenLine == <<" ", " ", "e", "t", "h", "0", ":", " ", "5">>
nonNumericRxLine == counterLine(<<"e", "t", "h", "0">>, <<"a", "b", "c">>, <<"7">>)
nonNumericTxLine == counterLine(<<"e", "t", "h", "0">>, <<"9">>, <<"x">>)
truncatedLine == <<" ", " ", "e", "t", "h", "0", ":", " ", "9", " ", "0", " ", "0", " ", "0", " ", "0", " ", "0", " ", "0", " ", "0">>
\* Fields that begin with digits and go on with letters.
digitPrefixLine == counterLine(<<"e", "t", "h", "0">>, <<"1", "2", "a", "b">>, <<"0", "x", "1", "f">>)

eth0Name == <<"e", "t", "h", "0">>

\* The lines a file of the line-loop specification is made of, by name.
Entries ==
    "eth0" :> interfaceEntry(<<"e", "t", "h", "0">>, 5, 3) @@
    "wlp2s0" :> interfaceEntry(<<"w", "l", "p", "2", "s", "0">>, 5, 3) @@
    "lo" :> interfaceEntry(<<"l", "o">>, 5, 3) @@
    "ifb0" :> interfaceEntry(<<"i", "f", "b", "0">>, 5, 3) @@
    "lxdbr0" :> interfaceEntry(<<"l", "x", "d", "b", "r", "0">>, 5, 3) @@
    "virbr0" :> interfaceEntry(<<"v", "i", "r", "b", "r", "0">>, 5, 3) @@
    "br0" :> interfaceEntry(<<"b", "r", "0">>, 5, 3) @@
    "vnet0" :> interfaceEntry(<<"v", "n", "e", "t", "0">>, 5, 3) @@
    "tun0" :> interfaceEntry(<<"t", "u", "n", "0">>, 5, 3) @@
    "tap0" :> interfaceEntry(<<"t", "a", "p", "0">>, 5, 3) @@
    "docker0" :> interfaceEntry(<<"d", "o", "c", "k", "e", "r", "0">>, 5, 3) @@
    "utun0" :> interfaceEntry(<<"u", "t", "u", "n", "0">>, 5, 3) @@
    "veth1a" :> interfaceEntry(<<"v", "e", "t", "h", "1", "a">>, 5, 3) @@
    "wg0" :> interfaceEntry(<<"w", "g", "0">>, 5, 3) @@
    "tunl0" :> interfaceEntry(<<"t", "u", "n", "l", "0">>, 5, 3) @@
    "docker_gwbridge" :> interfaceEntry(<<"d", "o", "c", "k", "e", "r", "_", "g", "w", "b", "r", "i", "d", "g", "e">>, 5, 3) @@
    "eth0 busy" :> interfaceEntry(eth0Name, 1000, 70) @@
    \* eth0.100 splits into eth0 and 100: piece 1 is the VLAN number and
    \* piece 9 the multicast column.
    "eth0.100" :> [interfaceEntry(vlanName, 40, 20) EXCEPT
                      !.tokens = 18, !.name0 = eth0Name,
                      !.read1 = 100, !.read9 = 0] @@
    "empty" :> otherEntry(emptyLine, 1, <<>>, NaN, NaN) @@
    "header 1" :> otherEntry(headerLine1, 3, <<"I", "n", "t", "e", "r">>, NaN, NaN) @@
    "header 2" :> otherEntry(headerLine2, 11, <<"f", "a", "c", "e">>, NaN, NaN) @@
    "two tokens" :> otherEntry(twoTokenLine, 2, eth0Name, 5, NaN) @@
    "rx abc" :> otherEntry(nonNumericRxLine, 17, eth0Name, NaN, 7) @@
    "tx x" :> otherEntry(nonNumericTxLine, 17, eth0Name, 9, NaN) @@
    "truncated" :> otherEntry(truncatedLine, 9, eth0Name, 9, NaN) @@
    "rx 12ab" :> otherEntry(digitPrefixLine, 17, eth0Name, 12, 31)

EntryNames == DOMAIN Entries

\* The files of the line-loop specification: up to MaxLines lines.
ParseFiles == UNION {[1..n -> EntryNames] : n \in 0..MaxLines}

\* lines, the result of split('\n') on the file.
linesOf(file) == [i \in 1..Len(file) |-> Entries[file[i]].line]

---------------------------------------------------------------------------
\* The sampler: NetSpeed.getCurrentNetSpeed and the timer callback.

\* Counter values the physical interface shows in the sampler's files.
RxValues == {0, 1000000, 1009000, 1012015}
TxValues == {0, 500000, 500600}

\* A whole file: the headers, the loopback and a container interface with
\* traffic of their own, one physical interface, and the empty piece that
\* split('\n') leaves after the last newline.
counterFile(rx, tx) ==
    <<headerLine1, headerLine2,
      counterLine(<<"l", "o">>, decimalString(777), decimalString(777)),
      counterLine(eth0Name, decimalString(rx), decimalString(tx)),
      counterLine(<<"v", "e", "t", "h", "1", "a">>, decimalString(4242), decimalString(99)),
      emptyLine>>

CounterFiles == {counterFile(rx, tx) : rx \in RxValues, tx \in TxValues}

\* What inputFile.load_contents(null) does on one call: it throws, or it
\* returns a file's content; rx and tx are the counters that content gives
\* the physical interface.
Reads ==
    {[ok |-> FALSE, lines |-> <<>>, rx |-> 0, tx |-> 0]}
    \cup {[ok |-> TRUE, lines |-> counterFile(rx, tx), rx |-> rx, tx |-> tx] :
             rx \in RxValues, tx \in TxValues}

\* The loop's totals for each file the sampler can read.
counterTotals == [f \in CounterFiles |-> sumInterfaces("esm", f)]

zeroSpeed == [down |-> ratio(0, 1), up |-> ratio(0, 1)]

\* A catch block that clears the stored totals.
failedSampleClearsTotals(lastDown, lastUp) ==
    [speed |-> zeroSpeed, lastDown |-> 0, lastUp |-> 0,
     totalDown |-> 0, totalUp |-> 0]

\* What getCurrentNetSpeed returns and leaves stored when load_contents
\* throws: the exception leaves the try block before any assignment, the
\* catch block logs it, and speed is still {"down": 0, "up": 0}.
failedSample(lastDown, lastUp) ==
    [speed |-> zeroSpeed, lastDown |-> lastDown, lastUp |-> lastUp,
     totalDown |-> 0, totalUp |-> 0]

\* A baseline adopted at every callback.
baselineAlwaysAdopted(lastDown, lastUp, totals) == totals

\* A baseline adopted only when both stored totals are zero.
baselineWhenBothZero(lastDown, lastUp, totals) ==
    IF lastDown = 0 /\ lastUp = 0
    THEN totals
    ELSE [down |-> lastDown, up |-> lastUp]

\* The two `if (this._lastTotal...Bytes === 0)` statements: the stored
\* totals the deltas are taken against.
baseline(lastDown, lastUp, totals) ==
    [down |-> IF lastDown = 0 THEN totals.down ELSE lastDown,
     up |-> IF lastUp = 0 THEN totals.up ELSE lastUp]

\* A rate with the operands of the subtraction exchanged.
speedOfReversed(total, base) == ratio(base - total, refreshInterval)

\* A rate that is the plain difference.
speedUndivided(total, base) == ratio(total - base, 1)

\* (total - base) / refreshInterval
speedOf(total, base) == ratio(total - base, refreshInterval)

\* A getCurrentNetSpeed that never lowers a stored total.
getCurrentNetSpeedKeepsHigherTotal(lastDown, lastUp, read) ==
    IF ~read.ok
    THEN failedSample(lastDown, lastUp)
    ELSE LET totals == counterTotals[read.lines]
             base == baseline(lastDown, lastUp, totals)
         IN  [speed |-> [down |-> speedOf(totals.down, base.down),
                         up |-> speedOf(totals.up, base.up)],
              lastDown |-> IF totals.down < lastDown THEN lastDown ELSE totals.down,
              lastUp |-> IF totals.up < lastUp THEN lastUp ELSE totals.up,
              totalDown |-> totals.down, totalUp |-> totals.up]

\* getCurrentNetSpeed(refreshInterval) on a sampler whose stored totals are
\* lastDown and lastUp: the speed it returns, the totals it leaves stored,
\* and its locals totalDownBytes and totalUpBytes.
getCurrentNetSpeed(lastDown, lastUp, read) ==
    IF ~read.ok
    THEN failedSample(lastDown, lastUp)
    ELSE LET totals == counterTotals[read.lines]
             base == baseline(lastDown, lastUp, totals)
         IN  [speed |-> [down |-> speedOf(totals.down, base.down),
                         up |-> speedOf(totals.up, base.up)],
              lastDown |-> totals.down, lastUp |-> totals.up,
              totalDown |-> totals.down, totalUp |-> totals.up]

\* The label of a new Indicator.
initialText == <<"-", "-", "-">>

NoTimeout == 0
noIndicator == [alive |-> FALSE, text |-> <<>>]

\* A callback that returns SOURCE_REMOVE after a failed read.
timerCallbackStopsOnError(lastDown, lastUp, read) ==
    LET sample == getCurrentNetSpeed(lastDown, lastUp, read)
    IN  [sample |-> sample,
         texts |-> toSpeedString(sample.speed),
         result |-> IF read.ok THEN "SOURCE_CONTINUE" ELSE "SOURCE_REMOVE"]

\* The function given to GLib.timeout_add_seconds: the sample, the texts
\* toSpeedString can make of it, and the value returned to GLib.
timerCallback(lastDown, lastUp, read) ==
    LET sample == getCurrentNetSpeed(lastDown, lastUp, read)
    IN  [sample |-> sample,
         texts |-> toSpeedString(sample.speed),
         result |-> "SOURCE_CONTINUE"]

\* A setText that never reaches the label.
setTextIgnored(panelButton, text) == panelButton

\* Indicator.setText(text)
setText(panelButton, text) == [panelButton EXCEPT !.text = text]

min(a, b) == IF a < b THEN a ELSE b

\* Main.panel.addToStatusArea(this._uuid, this._indicator, 0, "right"), by
\* what statusArea holds for the role: a free role takes the indicator.
\* GNOME Shell's panel throws "Extension point conflict" when the role is
\* taken; a panel that accepts the indicator all the same is kept as the
\* other outcome.
addToStatusArea(area) ==
    IF area = "none" THEN {"added"} ELSE {"added", "conflict"}

\* The observer's records after enable().
nothingSeen == [down |-> NaN, up |-> NaN]
noReset == [down |-> FALSE, up |-> FALSE]
openLedger == [ok |-> TRUE, first |-> NaN, sum |-> 0]
closedLedger == [ok |-> FALSE, first |-> NaN, sum |-> 0]

\* rate * refreshInterval, in bytes.
bytesReported(rate) == (rate.num * refreshInterval) \div rate.den

\* One direction's ledger after a callback: it is kept while every
\* successful read has found a nonzero counter, and closed for good by a
\* zero one.
ledgerStep(l, ok, counter, rate) ==
    IF ~l.ok \/ (ok /\ counter = 0)
    THEN closedLedger
    ELSE [ok |-> TRUE,
          first |-> IF ok /\ l.first = NaN THEN counter ELSE l.first,
          sum |-> l.sum + bytesReported(rate)]

\* An enable() that keeps the stored totals.
keepStoredTotals == UNCHANGED <<lastTotalDownBytes, lastTotalUpBytes>>

\* The first two statements of enable().
resetStoredTotals ==
    /\ lastTotalDownBytes' = 0
    /\ lastTotalUpBytes' = 0

\* enable()
Enable ==
    /\ resetStoredTotals
    /\ indicator' = [alive |-> TRUE, text |-> initialText]
    /\ \E outcome \in addToStatusArea(statusArea) :
          IF outcome = "added"
          THEN /\ Cardinality(sources) < MaxSources
               /\ statusArea' = "current"
               /\ LET id == CHOOSE i \in 1..MaxSources :
                               /\ i \notin sources
                               /\ \A j \in 1..MaxSources :
                                      j \notin sources => i <= j
                  IN  /\ timeout' = id
                      /\ sources' = sources \cup {id}
          ELSE \* the exception leaves enable() before line 102
               /\ statusArea' = "leaked"
               /\ UNCHANGED <<timeout, sources>>
    /\ seen' = nothingSeen
    /\ wasReset' = noReset
    /\ monotone' = TRUE
    /\ ledger' = [down |-> openLedger, up |-> openLedger]
    /\ speed' = zeroSpeed
    /\ readOk' = "none"
    /\ prevReadOk' = "none"
    /\ entryDown' = 0
    /\ entryUp' = 0
    /\ totalDown' = 0
    /\ totalUp' = 0
    /\ ticks' = 0
    /\ enables' = min(enables + 1, MaxEnables)
    /\ op' = "enable"
    /\ UNCHANGED <<parseVars, formatVars>>

\* disable()
Disable ==
    /\ indicator' = IF indicator.alive THEN noIndicator ELSE indicator
    /\ sources' = IF timeout # NoTimeout THEN sources \ {timeout} ELSE sources
    /\ timeout' = NoTimeout
    /\ statusArea' = IF indicator.alive /\ statusArea = "current"
                     THEN "none"
                     ELSE statusArea
    /\ op' = "disable"
    /\ UNCHANGED <<lastTotalDownBytes, lastTotalUpBytes, speed, readOk,
                   prevReadOk, entryDown, entryUp, totalDown, totalUp, ticks,
                   enables, seen, wasReset, monotone, ledger,
                   parseVars, formatVars>>

\* Timeout source id fires; load_contents behaves as `read`.  setText on a
\* destroyed indicator (this._indicator is null) throws out of the
\* callback, which ends the source.
Tick(id, read) ==
    /\ id \in sources
    /\ LET run == timerCallback(lastTotalDownBytes, lastTotalUpBytes, read)
       IN  /\ lastTotalDownBytes' = run.sample.lastDown
           /\ lastTotalUpBytes' = run.sample.lastUp
           /\ speed' = run.sample.speed
           /\ totalDown' = run.sample.totalDown
           /\ totalUp' = run.sample.totalUp
           /\ IF indicator.alive
              THEN /\ \E text \in run.texts :
                         indicator' = setText(indicator, text)
                   /\ sources' = IF run.result = "SOURCE_CONTINUE"
                                 THEN sources
                                 ELSE sources \ {id}
              ELSE /\ indicator' = indicator
                   /\ sources' = sources \ {id}
           /\ ledger' = [down |-> ledgerStep(ledger.down, read.ok, read.rx,
                                             run.sample.speed.down),
                         up |-> ledgerStep(ledger.up, read.ok, read.tx,
                                           run.sample.speed.up)]
    /\ seen' = IF read.ok THEN [down |-> read.rx, up |-> read.tx] ELSE seen
    /\ wasReset' = IF read.ok
                   THEN [down |-> seen.down # NaN /\ read.rx < seen.down,
                         up |-> seen.up # NaN /\ read.tx < seen.up]
                   ELSE wasReset
    \* NaN, the record of no read yet, lies below every counter.
    /\ monotone' = (monotone /\ (read.ok =>
                                    /\ read.rx >= seen.down
                                    /\ read.tx >= seen.up))
    /\ entryDown' = lastTotalDownBytes
    /\ entryUp' = lastTotalUpBytes
    /\ readOk' = IF read.ok THEN "ok" ELSE "failed"
    /\ prevReadOk' = readOk
    /\ ticks' = min(ticks + 1, MaxTicks)
    /\ op' = "tick"
    /\ UNCHANGED <<timeout, statusArea, enables, hostState, parseVars,
                   formatVars>>

\* The shell enables an extension only while it holds it disabled, and
\* disables it only while it holds it enabled.
HostEnable ==
    /\ hostState = "DISABLED"
    /\ hostState' = "ENABLED"
    /\ Enable

HostDisable ==
    /\ hostState = "ENABLED"
    /\ hostState' = "DISABLED"
    /\ Disable

TimerFires == \E id \in sources : \E read \in Reads : Tick(id, read)

\* The values the variables of the other specifications rest at.
parseIdle ==
    /\ pVersion = "esm"
    /\ pFile = <<>>
    /\ pI = 1
    /\ pTotalDown = 0
    /\ pTotalUp = 0

formatIdle ==
    /\ fInput = ratio(0, 1)
    /\ fAmount = ratio(0, 1)
    /\ fUnitIndex = 0
    /\ fOut = <<>>
    /\ fPc = "done"

\* The constructor.
samplerInit ==
    /\ lastTotalDownBytes = 0
    /\ lastTotalUpBytes = 0
    /\ indicator = noIndicator
    /\ timeout = NoTimeout
    /\ sources = {}
    /\ statusArea = "none"
    /\ seen = nothingSeen
    /\ wasReset = noReset
    /\ monotone = TRUE
    /\ ledger = [down |-> openLedger, up |-> openLedger]
    /\ speed = zeroSpeed
    /\ readOk = "none"
    /\ prevReadOk = "none"
    /\ entryDown = 0
    /\ entryUp = 0
    /\ totalDown = 0
    /\ totalUp = 0
    /\ ticks = 0
    /\ enables = 0
    /\ op = "new"
    /\ hostState = "DISABLED"

Init == samplerInit /\ parseIdle /\ formatIdle

Next == HostEnable \/ HostDisable \/ TimerFires

Spec == Init /\ [][Next]_vars

\* enable() and disable() called in any order, by a caller that does not
\* keep to the shell's alternation; hostState records its latest call.
CallEnable ==
    /\ Enable
    /\ hostState' = "ENABLED"

CallDisable ==
    /\ Disable
    /\ hostState' = "DISABLED"

AnyOrderNext == CallEnable \/ CallDisable \/ TimerFires

AnyOrderSpec == Init /\ [][AnyOrderNext]_vars

---------------------------------------------------------------------------
\* The line loop, one line at a time.

parseInit ==
    /\ pVersion \in Versions
    /\ pFile \in ParseFiles
    /\ pI = 1
    /\ pTotalDown = 0
    /\ pTotalUp = 0

\* One pass of `for (let i = 0; i < lines.length; ++i)`.
ParseLine ==
    /\ pI <= Len(linesOf(pFile))
    /\ LET totals == lineStep(pVersion, linesOf(pFile)[pI],
                              [down |-> pTotalDown, up |-> pTotalUp])
       IN  /\ pTotalDown' = totals.down
           /\ pTotalUp' = totals.up
    /\ pI' = pI + 1
    /\ UNCHANGED <<pVersion, pFile, samplerVars, formatVars>>


ParseInit == samplerInit /\ parseInit /\ formatIdle

ParseNext == ParseLine

ParseSpec == ParseInit /\ [][ParseNext]_vars

---------------------------------------------------------------------------
\* formatSpeedWithUnit, one step at a time.

\* Arguments of the formatter: whole numbers, thirds (the rates of the
\* sampler), small fractions, negative rates, and multiples of the powers of
\* 1000 up to 1000^MaxExp.
WholeInputs == {0, 1, 9, 10, 99, 100, 200, 999, 1000, 1005, 3000, 9999, 99999,
                123456, 999999, 1000000}
ThirdInputs == {1, 2, 29, 299, 2999, 3001}
LargeInputs == {1, 99, 999, 1000, 123456}

FormatInputs ==
    {ratio(n, 1) : n \in WholeInputs}
    \cup {ratio(n, 3) : n \in ThirdInputs}
    \cup {ratio(1, 1000), ratio(1, 200), ratio(1, 100), ratio(999, 100), ratio(5, 2)}
    \cup {ratio(-1, 1), ratio(-3000, 1), ratio(-1, 3), ratio(-1, 1000),
          ratio(-5, 2), ratio(-29, 3), ratio(-500000, 3), ratio(-1012015, 1)}
    \cup {[num |-> n, den |-> 1, exp |-> e] : n \in LargeInputs, e \in 1..MaxExp}

formatInit ==
    /\ fInput \in FormatInputs
    /\ fAmount = fInput
    /\ fUnitIndex = 0
    /\ fOut = <<>>
    /\ fPc = "loop"

\* One pass of the while loop.
FormatScale ==
    /\ fPc = "loop"
    /\ mustScale(fAmount, fUnitIndex)
    /\ fAmount' = divideByThousand(fAmount)
    /\ fUnitIndex' = fUnitIndex + 1
    /\ UNCHANGED <<fInput, fOut, fPc, samplerVars, parseVars>>

\* The loop ends; digits is chosen and the string returned.
FormatReturn ==
    /\ fPc = "loop"
    /\ ~mustScale(fAmount, fUnitIndex)
    /\ \E text \in toFixed(fAmount, chooseDigits(fAmount)) :
          fOut' = text \o <<" ">> \o speedUnits[fUnitIndex + 1]
    /\ fPc' = "done"
    /\ UNCHANGED <<fInput, fAmount, fUnitIndex, samplerVars, parseVars>>

FormatInit == samplerInit /\ parseIdle /\ formatInit

FormatNext == FormatScale \/ FormatReturn

FormatSpec == FormatInit /\ [][FormatNext]_vars


---------------------------------------------------------------------------
\* Properties of the sampler (specification Spec).

\* rate = n / 3, for an integer n.
isThirdOf(rate, n) == rate.exp = 0 /\ rate.num * 3 = n * rate.den

(* C1: the first callback after every enable(), the first start or a
   restart, returns down = 0 and up = 0, whatever the counters read. *)
C1_FirstTickAfterEnableIsZero ==
    ticks = 1 => isThirdOf(speed.down, 0) /\ isThirdOf(speed.up, 0)

C1_Witness ==
    /\ op = "tick" /\ ticks = 1 /\ enables = 2 /\ readOk = "ok"
    /\ totalDown = 1009000 /\ totalUp = 500600
    /\ speed = zeroSpeed

(* C2: a successful callback that finds both stored totals nonzero returns
   down = (cur.rx - prev.rx) / 3 and up = (cur.tx - prev.tx) / 3; from
   prev = {1000000, 500000} and cur = {1009000, 500600} it returns 3000
   and 200. *)
C2_RateIsDeltaOverInterval ==
    (readOk = "ok" /\ entryDown # 0 /\ entryUp # 0) =>
        /\ isThirdOf(speed.down, totalDown - entryDown)
        /\ isThirdOf(speed.up, totalUp - entryUp)
        /\ (/\ entryDown = 1000000 /\ entryUp = 500000
            /\ totalDown = 1009000 /\ totalUp = 500600)
           => speed = [down |-> [num |-> 3000, den |-> 1, exp |-> 0],
                       up |-> [num |-> 200, den |-> 1, exp |-> 0]]

C2_Witness ==
    /\ op = "tick" /\ readOk = "ok" /\ prevReadOk = "ok"
    /\ entryDown = 1000000 /\ entryUp = 500000
    /\ totalDown = 1009000 /\ totalUp = 500600
    /\ speed.down.num = 3000 /\ speed.up.num = 200

(* C4: a callback whose read fails returns {down: 0, up: 0}, shows it,
   and leaves its timeout source registered; the successful callback that
   follows computes its rate from the stored totals and shows it. *)
C4_FailedReadKeepsSampling ==
    /\ (op = "tick" /\ readOk = "failed") =>
          /\ speed = zeroSpeed
          /\ timeout # NoTimeout /\ sources = {timeout}
          /\ indicator.alive
          /\ indicator.text = <<"↓", " ", "0", " ", "B", "/", "s", " ", "↑", " ", "0", " ", "B", "/", "s">>
    /\ (op = "tick" /\ readOk = "ok" /\ prevReadOk = "failed") =>
          /\ isThirdOf(speed.down,
                       IF entryDown = 0 THEN 0 ELSE totalDown - entryDown)
          /\ isThirdOf(speed.up, IF entryUp = 0 THEN 0 ELSE totalUp - entryUp)
          /\ lastTotalDownBytes = totalDown /\ lastTotalUpBytes = totalUp
          /\ indicator.text \in toSpeedString(speed)
          /\ sources = {timeout}

C4_Witness ==
    /\ op = "tick" /\ readOk = "ok" /\ prevReadOk = "failed"
    /\ entryDown = 1000000 /\ totalDown = 1009000
    /\ speed.down.num = 3000
    /\ indicator.text = <<"↓", " ", "3", ".", "0", "0", " ", "K", "/", "s", " ", "↑", " ", "0", " ", "B", "/", "s">>

(* C8: while the extension is enabled the label shows "---" until the
   first callback and, after every callback, the string made of that
   callback's sample. *)
C8_LabelShowsLatestSample ==
    hostState = "ENABLED" =>
        /\ indicator.alive
        /\ ticks = 0 => indicator.text = <<"-", "-", "-">>
        /\ ticks > 0 => indicator.text \in toSpeedString(speed)
        /\ (ticks > 0 /\ speed.down = ratio(3000, 1) /\ speed.up = ratio(200, 1))
           => indicator.text = <<"↓", " ", "3", ".", "0", "0", " ", "K", "/", "s", " ", "↑", " ", "2", "0", "0", " ", "B", "/", "s">>
        /\ (ticks > 0 /\ speed = zeroSpeed)
           => indicator.text = <<"↓", " ", "0", " ", "B", "/", "s", " ", "↑", " ", "0", " ", "B", "/", "s">>

C8_Witness ==
    /\ hostState = "ENABLED" /\ op = "tick" /\ ticks = 3
    /\ readOk = "ok" /\ prevReadOk = "failed"
    /\ indicator.text = <<"↓", " ", "3", ".", "0", "0", " ", "K", "/", "s", " ", "↑", " ", "2", "0", "0", " ", "B", "/", "s">>

(* C9, as claimed: the baseline is adopted only when both stored totals are
   zero, which happens only at the first callback after enable(); with one
   total zero both deltas are taken against the stored totals. *)
C9_AdoptionOnlyWhenBothZero ==
    (op = "tick" /\ readOk = "ok") =>
        /\ (entryDown = 0 /\ entryUp = 0) => ticks = 1
        /\ IF entryDown = 0 /\ entryUp = 0
           THEN speed = zeroSpeed
           ELSE /\ isThirdOf(speed.down, totalDown - entryDown)
                /\ isThirdOf(speed.up, totalUp - entryUp)

(* C9, amended: the baseline is adopted for each total separately, exactly
   when that stored total is zero; the rate of that direction is then 0, and
   otherwise it is the delta against the stored total. *)
C9_AdoptionPerField ==
    (op = "tick" /\ readOk = "ok") =>
        /\ isThirdOf(speed.down, IF entryDown = 0 THEN 0 ELSE totalDown - entryDown)
        /\ isThirdOf(speed.up, IF entryUp = 0 THEN 0 ELSE totalUp - entryUp)

C9_Witness ==
    /\ op = "tick" /\ readOk = "ok" /\ ticks = 2
    /\ entryDown = 0 /\ entryUp = 500000
    /\ totalDown = 1000000 /\ totalUp = 500600
    /\ speed.down.num = 0 /\ speed.up.num = 200

(* C10: a callback whose read fails leaves the stored totals as they were;
   the stored totals change only in enable(), to zero, and in a callback
   whose read succeeds, to that callback's totals. *)
C10_StoredTotalsFrame ==
    [][/\ (op' = "tick" /\ readOk' = "failed") =>
             /\ lastTotalDownBytes' = lastTotalDownBytes
             /\ lastTotalUpBytes' = lastTotalUpBytes
       /\ (\/ lastTotalDownBytes' # lastTotalDownBytes
           \/ lastTotalUpBytes' # lastTotalUpBytes) =>
             \/ /\ op' = "enable"
                /\ lastTotalDownBytes' = 0 /\ lastTotalUpBytes' = 0
             \/ /\ op' = "tick" /\ readOk' = "ok"
                /\ lastTotalDownBytes' = totalDown'
                /\ lastTotalUpBytes' = totalUp']_vars

C10_Witness ==
    /\ op = "tick" /\ readOk = "failed" /\ prevReadOk = "ok"
    /\ lastTotalDownBytes = 1009000 /\ lastTotalUpBytes = 500600
    /\ entryDown = 1009000 /\ entryUp = 500600

(* C11, as claimed: a successful callback that reads a counter below the
   one read before it returns the negative difference over 3 and stores the
   lower counter; the next successful callback returns its difference to
   that lower counter over 3. *)
C11_ResetCorrectedOnNextTick ==
    [][(op' = "tick" /\ readOk' = "ok") =>
          /\ (wasReset'.down \/ wasReset.down) =>
                /\ isThirdOf(speed'.down, seen'.down - seen.down)
                /\ lastTotalDownBytes' = seen'.down
          /\ (wasReset'.up \/ wasReset.up) =>
                /\ isThirdOf(speed'.up, seen'.up - seen.up)
                /\ lastTotalUpBytes' = seen'.up]_vars

(* C11, amended: a successful callback that reads a counter below the one
   read before it returns the negative difference over 3 and stores the
   lower counter; the next successful callback returns its difference to
   that lower counter over 3, unless the lower counter is 0: a stored 0 is
   taken for "no previous sample", and the next successful callback
   returns 0 for that direction and stores its own counter. *)
C11_ResetCorrectedUnlessZero ==
    [][(op' = "tick" /\ readOk' = "ok") =>
          /\ (wasReset'.down \/ wasReset.down) =>
                /\ isThirdOf(speed'.down,
                             IF seen.down = 0 THEN 0 ELSE seen'.down - seen.down)
                /\ wasReset'.down => speed'.down.num < 0
                /\ lastTotalDownBytes' = seen'.down
          /\ (wasReset'.up \/ wasReset.up) =>
                /\ isThirdOf(speed'.up,
                             IF seen.up = 0 THEN 0 ELSE seen'.up - seen.up)
                /\ wasReset'.up => speed'.up.num < 0
                /\ lastTotalUpBytes' = seen'.up]_vars

\* 1009000 is read, then 1000000 (the reset), then 1012015.
C11_Witness ==
    /\ op = "tick" /\ readOk = "ok" /\ ticks = 3
    /\ ledger.down.first = 1009000
    /\ entryDown = 1000000 /\ totalDown = 1012015
    /\ speed.down = ratio(4005, 1)
    /\ ~wasReset.down

(* C13: while no successful read since enable() has found the rx or the tx
   counter below the one read before it, every callback, successful or
   failed, returns down >= 0 and up >= 0. *)
C13_NegativeOnlyOnReset ==
    monotone => speed.down.num >= 0 /\ speed.up.num >= 0

\* 1000000, a failed read, then 1012015: 12015 / 3 = 4005.
C13_Witness ==
    /\ op = "tick" /\ ticks = 3 /\ monotone
    /\ readOk = "ok" /\ prevReadOk = "failed"
    /\ seen = [down |-> 1012015, up |-> 500600]
    /\ ledger.down.first = 1000000 /\ ledger.up.first = 500600
    /\ speed = [down |-> ratio(4005, 1), up |-> ratio(0, 1)]

(* C14: over the callbacks since enable(), successful or failed in any
   order, while every successful read has found a nonzero rx counter the
   sum of down * 3 equals the rx counter of the latest successful read
   minus that of the first one; likewise for up and the tx counter. *)
C14_ReportedBytesTelescope ==
    /\ ledger.down.ok =>
          ledger.down.sum = IF ledger.down.first = NaN
                            THEN 0
                            ELSE seen.down - ledger.down.first
    /\ ledger.up.ok =>
          ledger.up.sum = IF ledger.up.first = NaN
                          THEN 0
                          ELSE seen.up - ledger.up.first

\* 1009000, then 1000000 (a negative sample), then 1012015:
\* 0 - 9000 + 12015 = 1012015 - 1009000.
C14_Witness ==
    /\ op = "tick" /\ ticks = 3 /\ readOk = "ok"
    /\ entryDown = 1000000
    /\ seen.down = 1012015
    /\ ledger.down = [ok |-> TRUE, first |-> 1009000, sum |-> 3015]
    /\ speed.down = ratio(4005, 1)

---------------------------------------------------------------------------
\* Properties of enable() and disable() called in any order (specification
\* AnyOrderSpec).

(* C12: after any sequence of enable() and disable() calls one timeout
   source is registered if the latest call was enable() and none if it was
   disable(), so that no callback runs after disable(). *)
C12_OneTimerIffEnabled ==
    Cardinality(sources) = IF hostState = "ENABLED" THEN 1 ELSE 0


---------------------------------------------------------------------------
\* Properties of the line loop (specification ParseSpec).

\* The sum of the first n numbers of a sequence.
RECURSIVE sumTo(_, _)
sumTo(numbers, n) == IF n = 0 THEN 0 ELSE numbers[n] + sumTo(numbers, n - 1)

entryAt(i) == Entries[pFile[i]]

loopDone == pI > Len(pFile)

onlyInterfaceLines == \A i \in 1..Len(pFile) : entryAt(i).kind = "interface"

\* The prefixes the specification lists.
claimedPrefixes ==
    {<<"l", "o">>,
     <<"i", "f", "b">>,
     <<"l", "x", "d", "b", "r">>,
     <<"v", "i", "r", "b", "r">>,
     <<"b", "r">>,
     <<"v", "n", "e", "t">>,
     <<"t", "u", "n">>,
     <<"t", "a", "p">>,
     <<"d", "o", "c", "k", "e", "r">>,
     <<"u", "t", "u", "n">>,
     <<"w", "g">>,
     <<"v", "e", "t", "h">>}

hasClaimedPrefix(name) == \E prefix \in claimedPrefixes : startsWith(name, prefix)

\* The filter as data: names skipped as they stand, prefixes skipped when a
\* digit follows, prefixes skipped whatever follows.
exactNames == {<<"l", "o">>}
digitPrefixes(version) ==
    {<<"i", "f", "b">>, <<"l", "x", "d", "b", "r">>, <<"v", "i", "r", "b", "r">>, <<"b", "r">>,
     <<"v", "n", "e", "t">>, <<"t", "u", "n">>, <<"t", "a", "p">>}
    \cup IF version = "esm"
         THEN {<<"d", "o", "c", "k", "e", "r">>, <<"u", "t", "u", "n">>}
         ELSE {}
anyPrefixes(version) == IF version = "esm" THEN {<<"v", "e", "t", "h">>} ELSE {}

filteredByRule(version, name) ==
    \/ name \in exactNames
    \/ \E prefix \in digitPrefixes(version) :
          /\ Len(name) > Len(prefix)
          /\ SubSeq(name, 1, Len(prefix)) = prefix
          /\ name[Len(prefix) + 1] \in {"0", "1", "2", "3", "4", "5", "6", "7", "8", "9"}
    \/ \E prefix \in anyPrefixes(version) :
          /\ Len(name) >= Len(prefix)
          /\ SubSeq(name, 1, Len(prefix)) = prefix

(* C3, as claimed: an interface whose name starts with one of lo, ifb,
   lxdbr, virbr, br, vnet, tun, tap, docker, utun, wg, veth adds nothing,
   and the totals are the rx and tx sums of the other interfaces. *)
C3_ClaimedPrefixesAddNothing ==
    (loopDone /\ onlyInterfaceLines) =>
        /\ pTotalDown =
              sumTo([i \in 1..Len(pFile) |->
                        IF hasClaimedPrefix(entryAt(i).iface)
                        THEN 0 ELSE entryAt(i).rxBytes], Len(pFile))
        /\ pTotalUp =
              sumTo([i \in 1..Len(pFile) |->
                        IF hasClaimedPrefix(entryAt(i).iface)
                        THEN 0 ELSE entryAt(i).txBytes], Len(pFile))

(* C3, amended: an interface line adds nothing exactly when its first token
   is lo, or one of ifb, lxdbr, virbr, br, vnet, tun, tap, docker, utun
   with a digit next, or starts with veth (the legacy file: without docker,
   utun and veth); the totals are the sums, over the other lines, of the
   numbers read from token 1 and token 9. *)
C3_FilterIsExactNamesAndDigitPrefixes ==
    (loopDone /\ onlyInterfaceLines) =>
        /\ pTotalDown =
              sumTo([i \in 1..Len(pFile) |->
                        IF filteredByRule(pVersion, entryAt(i).name0)
                        THEN 0 ELSE entryAt(i).read1], Len(pFile))
        /\ pTotalUp =
              sumTo([i \in 1..Len(pFile) |->
                        IF filteredByRule(pVersion, entryAt(i).name0)
                        THEN 0 ELSE entryAt(i).read9], Len(pFile))

C3_Witness ==
    /\ loopDone /\ pVersion = "esm"
    /\ pFile = <<"docker0", "wg0">>
    /\ pTotalDown = 5 /\ pTotalUp = 3

(* C7: a line of at most 2 tokens, or whose rx or tx field is not a
   number, adds nothing, and every well-formed unfiltered line before or
   after it adds its rx and tx bytes. *)
C7_BadLinesAddNothing ==
    /\ pTotalDown =
          sumTo([i \in 1..Len(pFile) |->
                    IF /\ entryAt(i).kind = "interface"
                       /\ ~filteredByRule(pVersion, entryAt(i).iface)
                    THEN entryAt(i).rxBytes ELSE 0], pI - 1)
    /\ pTotalUp =
          sumTo([i \in 1..Len(pFile) |->
                    IF /\ entryAt(i).kind = "interface"
                       /\ ~filteredByRule(pVersion, entryAt(i).iface)
                    THEN entryAt(i).txBytes ELSE 0], pI - 1)

---------------------------------------------------------------------------
\* Properties of the formatter (specification FormatSpec).

\* The numeric part of a returned string: what stands before the space.
RECURSIVE numericPart(_)
numericPart(text) ==
    IF text = <<>> \/ Head(text) = " "
    THEN <<>>
    ELSE <<Head(text)>> \o numericPart(Tail(text))

\* Its digits before the point.
RECURSIVE integerPart(_)
integerPart(number) ==
    IF number = <<>> \/ Head(number) = "."
    THEN <<>>
    ELSE <<Head(number)>> \o integerPart(Tail(number))

\* How many digits it has after the point.
decimalsPrinted(number) ==
    IF Len(integerPart(number)) = Len(number)
    THEN 0
    ELSE Len(number) - Len(integerPart(number)) - 1

\* The unit of a returned string: what stands after the space.
unitPart(text) == SubSeq(text, Len(numericPart(text)) + 2, Len(text))

formatted == fPc = "done" /\ fInput.num >= 0

\* 1 <= printed number < 1000.
printedInLadderRange ==
    /\ Len(integerPart(numericPart(fOut))) \in 1..3
    /\ integerPart(numericPart(fOut)) # <<"0">>

(* C5, as claimed: for x >= 0 one unit of the ladder is chosen by dividing
   by 1000 while the amount is >= 1000 and units remain, and below the top
   unit the printed number lies in [1, 1000). *)
C5_PrintedWithinOneToThousand ==
    formatted =>
        /\ fUnitIndex \in 0..8
        /\ unitPart(fOut) = speedUnits[fUnitIndex + 1]
        /\ fUnitIndex < 8 => printedInLadderRange

(* C5, amended: for x >= 0 one unit of the ladder is chosen by dividing by
   1000 while the amount is >= 1000 and units remain; below the top unit
   the scaled amount is < 1000, after at least one division it is >= 1, and
   the printed number is the scaled amount rounded: at least 1 after a
   division, at most 1000 (999.67 prints 1000), and below 1 only at B/s. *)
C5_ScaledWithinLadder ==
    formatted =>
        /\ fUnitIndex \in 0..8
        /\ unitPart(fOut) = speedUnits[fUnitIndex + 1]
        /\ fUnitIndex < 8 =>
              /\ fAmount.exp = 0
              /\ fAmount.num < 1000 * fAmount.den
              /\ \/ printedInLadderRange
                 \/ numericPart(fOut) = <<"1", "0", "0", "0">>
                 \/ fUnitIndex = 0 /\ integerPart(numericPart(fOut)) = <<"0">>
        /\ fUnitIndex >= 1 =>
              /\ fAmount.exp > 0 \/ fAmount.num >= fAmount.den
              /\ integerPart(numericPart(fOut)) # <<"0">>
        /\ IF fInput.exp >= fUnitIndex
           THEN fAmount = [fInput EXCEPT !.exp = @ - fUnitIndex]
           ELSE /\ fAmount.exp = 0
                /\ fUnitIndex - fInput.exp \in 1..2
                /\ fAmount.num * fInput.den
                      * (IF fUnitIndex - fInput.exp = 1 THEN 1000 ELSE 1000000)
                   = fInput.num * fAmount.den

C5_Witness ==
    /\ fPc = "done"
    /\ fInput = [num |-> 123456, den |-> 1, exp |-> 9]
    /\ fUnitIndex = 8
    /\ fOut = <<"1", "2", "3", "4", "5", "6", "0", "0", "0", " ", "Y", "/", "s">>

\* The digits the table gives the scaled amount.
tableDigits(amount) ==
    IF amount.exp > 0 THEN 0
    ELSE IF amount.num >= 100 * amount.den \/ 100 * amount.num < amount.den THEN 0
    ELSE IF amount.num >= 10 * amount.den THEN 1
    ELSE 2

(* C6: for x >= 0 the decimal digits printed are those the table gives the
   scaled amount a: 0 if a >= 100 or a < 0.01, 1 if 10 <= a < 100, 2 if
   0.01 <= a < 10; 0 prints "0 B/s", 999 "999 B/s", 1000 "1.00 K/s" and
   123456 "123 K/s". *)
C6_DigitsFollowTable ==
    formatted =>
        /\ decimalsPrinted(numericPart(fOut)) = tableDigits(fAmount)
        /\ fInput = ratio(0, 1) => fOut = <<"0", " ", "B", "/", "s">>
        /\ fInput = ratio(999, 1) => fOut = <<"9", "9", "9", " ", "B", "/", "s">>
        /\ fInput = ratio(1000, 1) => fOut = <<"1", ".", "0", "0", " ", "K", "/", "s">>
        /\ fInput = ratio(123456, 1) => fOut = <<"1", "2", "3", " ", "K", "/", "s">>

C6_Witness ==
    /\ fPc = "done"
    /\ fInput = ratio(123456, 1)
    /\ fUnitIndex = 1
    /\ fOut = <<"1", "2", "3", " ", "K", "/", "s">>

(* C15: for every amount x < 0 no scaling step is applied and the unit is
   B/s whatever the magnitude, no decimal digit is printed, and the sign is
   kept: the string is "-", then |x| rounded to an integer, then " B/s". *)
C15_NegativeUnscaledNoDecimals ==
    (fPc = "done" /\ fInput.num < 0) =>
        /\ fUnitIndex = 0
        /\ fAmount = fInput
        /\ unitPart(fOut) = speedUnits[1]
        /\ decimalsPrinted(numericPart(fOut)) = 0
        /\ Head(fOut) = "-"
        /\ LET printed == parseInt(Tail(numericPart(fOut)))
               distance == printed * fInput.den + fInput.num
           IN  /\ printed # NaN
               /\ 2 * distance <= fInput.den
               /\ -2 * distance <= fInput.den
        /\ fInput = ratio(-3000, 1)
              => fOut = <<"-", "3", "0", "0", "0", " ", "B", "/", "s">>
        /\ fInput = ratio(-1, 3) => fOut = <<"-", "0", " ", "B", "/", "s">>

C15_Witness ==
    /\ fPc = "done"
    /\ fInput = ratio(-500000, 3)
    /\ fUnitIndex = 0
    /\ fOut = <<"-", "1", "6", "6", "6", "6", "7", " ", "B", "/", "s">>

=============================================================================
